---- MODULE Spec2Model ----
(***************************************************************************)
(* Model of the term-life projection engine (src/app/projection_engine.py, *)
(* src/app/mortality_tables.py, src/app/models.py).                        *)
(*                                                                         *)
(* Number representation.  The engine computes in binary floating point.   *)
(* The model computes in decimal fixed point with six fractional digits:   *)
(*   - probabilities, interest rates and discount factors are integers in  *)
(*     units of 1/Scale (ELT17 is tabulated to exactly six decimals);      *)
(*   - policy counts are integers in units of 1/Scale of a policy;         *)
(*   - money is an integer in units of 1/MoneyScale of a pound.            *)
(* A product of two such numbers is truncated to the unit, as a float      *)
(* product is rounded to the nearest float.  round(x, 4) on a count and    *)
(* round(x, 2) on money both leave two guard digits below the rounding     *)
(* position, so the effect of rounding is visible in the model.            *)
(***************************************************************************)
EXTENDS Integers, Sequences, FiniteSets, TLC

Scale == 1000 * 1000
Kilo == 10 * 100
MoneyScale == 100 * 100

\* ------------------------------------------------------------------------
\* Program constants
\* ------------------------------------------------------------------------
MonthsPerYear == 12
MaxTableAge == 100
MinTableAge == 0
MinEntryAge == 18
MaxEntryAge == 80
CountDigits == 4
MoneyDigits == 2
DefaultTable == "ELT17_MALES"

\* ------------------------------------------------------------------------
\* Bounds of the model
\* ------------------------------------------------------------------------
MaxTermYears == 22

\* ------------------------------------------------------------------------
\* Python builtins
\* ------------------------------------------------------------------------
Min(a, b) == IF a <= b THEN a ELSE b
Max(a, b) == IF a >= b THEN a ELSE b

RECURSIVE Pow10(_)
Pow10(n) == IF n = 0 THEN 1 ELSE 10 * Pow10(n - 1)

\* round(x, ndigits) of a number held in units of 1/scale: the nearest
\* multiple of 10^-ndigits, an exact tie going to the even neighbour.
round(x, ndigits, scale) ==
    LET u == scale \div Pow10(ndigits)
        q == x \div u
        r == x % u
    IN  IF 2 * r < u THEN q * u
        ELSE IF 2 * r > u THEN (q + 1) * u
        ELSE IF q % 2 = 0 THEN q * u ELSE (q + 1) * u

\* a * b for two fixed-point numbers, one of them in units of 1/Scale:
\* floor(a * b / Scale) for 0 <= a, b <= 10^9, computed without overflow.
MulFx(a, b) ==
    IF a = 0 \/ b = 0 THEN 0
    ELSE LET ah == a \div Kilo
             al == a % Kilo
             bh == b \div Kilo
             bl == b % Kilo
             m  == ah * bl + al * bh
         IN  ah * bh + m \div Kilo + ((m % Kilo) * Kilo + al * bl) \div Scale

\* 1 / g for a fixed-point g in [Scale, 2 * Scale]: floor(Scale^2 / g).
InvFx(g) ==
    LET q1 == (Scale * Kilo) \div g
        r1 == (Scale * Kilo) % g
    IN  q1 * Kilo + (r1 * Kilo) \div g

\* x ** 12
Pow12Fx(r) ==
    LET r2 == MulFx(r, r)
        r4 == MulFx(r2, r2)
        r8 == MulFx(r4, r4)
    IN  MulFx(r8, r4)

RECURSIVE Root12Search(_, _, _)
Root12Search(lo, hi, x) ==
    IF lo >= hi THEN lo
    ELSE LET mid == (lo + hi) \div 2
         IN  IF Pow12Fx(mid) >= x THEN Root12Search(lo, mid, x)
             ELSE Root12Search(mid + 1, hi, x)

\* x ** (1/12) for a fixed-point x in [0, 2 * Scale]: the least r whose
\* twelfth power reaches x.
Root12(x) ==
    IF x <= Scale THEN Root12Search(0, Scale, x)
    ELSE Root12Search(Scale, Scale + Scale \div 10, x)

\* v ** t for a fixed-point v in [0, Scale] and an integer t >= 0.
RECURSIVE PowFx(_, _)
PowFx(v, t) ==
    IF t = 0 THEN Scale
    ELSE IF t % 2 = 0
         THEN LET h == PowFx(v, t \div 2) IN MulFx(h, h)
         ELSE MulFx(v, PowFx(v, t - 1))

\* ------------------------------------------------------------------------
\* Mortality table (mortality_tables.py)
\* ------------------------------------------------------------------------
\* ELT17 males, annual qx in millionths; entry age + 1 holds age's qx.
ELT17_MALES_QX ==
    <<
       4707, 337, 186, 150, 121, 107, 96, 88, 83, 83,
       89, 100, 117, 140, 169, 206, 260, 334, 418, 495,
       553, 588, 604, 607, 605, 601, 598, 600, 607, 622,
       646, 680, 724, 780, 848, 928, 1021, 1128, 1249, 1386,
       1538, 1707, 1893, 2099, 2326, 2575, 2849, 3149, 3479, 3842,
       4242, 4683, 5171, 5712, 6315, 6988, 7742, 8589, 9541, 10615,
       11826, 13195, 14743, 16496, 18485, 20745, 23318, 26251, 29601, 33429,
       37809, 42827, 48582, 55188, 62773, 71487, 81499, 93002, 106217, 121392,
       138802, 158745, 181534, 207489, 236922, 270111, 307256, 348429, 393512, 442143,
       493651, 547108, 601335, 654943, 706489, 754621, 798189, 836310, 868438, 894366,
       1000000
    >>

\* (mutant) get_qx falls back to the built-in table for every identifier.
get_qx_never_raises(table) == FALSE

\* get_qx raises ValueError for every table but the built-in one.
get_qx_raises(table) == table /= DefaultTable

\* (mutant) the cap is one year short of the last tabulated age.
clamp_age_one_short(age) == Max(Min(age, MaxTableAge - 1), MinTableAge)

\* The age get_qx looks up: min(age, 100), then max(age, 0).
clamp_age(age) == Max(Min(age, MaxTableAge), MinTableAge)

\* get_qx(age, table), for a table it does not raise on.
get_qx(age, table) == ELT17_MALES_QX[clamp_age(age) + 1]

\* (mutant) the monthly rate is a twelfth of the annual rate.
annual_to_monthly_linear(qx_annual) == qx_annual \div MonthsPerYear

\* annual_to_monthly_qx: 1 - (1 - qx_annual) ** (1/12)
annual_to_monthly_qx(qx_annual) == Scale - Root12(Scale - qx_annual)

\* annual_to_monthly_qx on the values the table holds, evaluated once.
MonthlyQxOf ==
    [q \in {ELT17_MALES_QX[i] : i \in DOMAIN ELT17_MALES_QX} |->
        annual_to_monthly_qx(q)]

\* ------------------------------------------------------------------------
\* Inputs: Assumptions values that pass the field constraints of models.py
\* ------------------------------------------------------------------------
NumPolicies == {1, 2}
TermYearsSet == {1, MaxTermYears}
EntryAges == {MinEntryAge, MaxEntryAge}
SumAssureds == {1000 * MoneyScale}
InterestRates == {0, 3 * (Scale \div 100)}
MonthlyPremiums == {0, 5 * MoneyScale}
TableIds == {DefaultTable, "FOO"}
MaxMonths == MaxTermYears * MonthsPerYear

Assumptions ==
    [num_policies : NumPolicies,
     sum_assured : SumAssureds,
     term_years : TermYearsSet,
     entry_age : EntryAges,
     interest_rate : InterestRates,
     monthly_premium : MonthlyPremiums,
     mortality_table : TableIds]

\* ------------------------------------------------------------------------
\* Reserve valuator (projection_engine.py, calculate_reserve)
\* ------------------------------------------------------------------------
\* monthly_rate = (1 + annual_interest_rate) ** (1/12) - 1
monthly_rate(annual_interest_rate) == Root12(Scale + annual_interest_rate) - Scale

\* discount = (1 + monthly_rate) ** (-t), as (1 / (1 + monthly_rate)) ** t
discount(rate, t) == PowFx(InvFx(Scale + rate), t)

\* The discount factors of the interest rates of the inputs, evaluated once.
DiscountOf ==
    [i \in InterestRates |-> [t \in 0..MaxMonths |-> discount(monthly_rate(i), t)]]

\* (mutant) the age is taken as the projection loop takes it, from month - 1.
age_at_one_based(entry_age, current_month, t) ==
    entry_age + (((current_month + t) - 1) \div MonthsPerYear)

\* age_at_t = entry_age + (future_month // 12), future_month = current_month + t
age_at(entry_age, current_month, t) ==
    entry_age + ((current_month + t) \div MonthsPerYear)

\* One pass of the body of the loop over t, on the loop's variables
\* s = [expected_policies, pv_benefits, pv_premiums].
reserve_step(s, t, a, current_month) ==
    LET age_at_t == age_at(a.entry_age, current_month, t)
        qx_annual == get_qx(age_at_t, a.mortality_table)
        qx_monthly == MonthlyQxOf[qx_annual]
        disc == DiscountOf[a.interest_rate][t]
        expected_deaths == MulFx(s.expected_policies, qx_monthly)
    IN  [expected_policies |-> s.expected_policies - expected_deaths,
         pv_benefits |-> s.pv_benefits
                           + MulFx(MulFx(expected_deaths, a.sum_assured), disc),
         pv_premiums |-> s.pv_premiums
                           + MulFx(MulFx(s.expected_policies, a.monthly_premium), disc)]

\* The loop's variables after the passes t = lo .. hi, taken in order from s.
\* (The range is halved to keep the evaluation shallow; the passes still run
\* in increasing t, each on the result of the one before.)
RECURSIVE reserve_sweep(_, _, _, _, _)
reserve_sweep(s, lo, hi, a, current_month) ==
    IF lo > hi THEN s
    ELSE IF lo = hi THEN reserve_step(s, lo, a, current_month)
    ELSE LET mid == (lo + hi) \div 2
             s1 == reserve_sweep(s, lo, mid, a, current_month)
         IN  IF s1.expected_policies >= 0
             THEN reserve_sweep(s1, mid + 1, hi, a, current_month)
             ELSE s1

\* The loop's variables after the whole loop of a call with these arguments.
reserve_loop(policies, a, current_month, term_months) ==
    reserve_sweep([expected_policies |-> policies, pv_benefits |-> 0, pv_premiums |-> 0],
                  0, (term_months - current_month) - 1, a, current_month)

\* reserve = pv_benefits - pv_premiums, before the floor
reserve_unfloored(policies, a, current_month, term_months) ==
    LET s == reserve_loop(policies, a, current_month, term_months)
    IN  s.pv_benefits - s.pv_premiums

\* (mutant) the reserve is returned as computed, without the floor.
no_floor(reserve) == reserve

\* return max(0, reserve)
floor_at_zero(reserve) == Max(0, reserve)

calculate_reserve(policies, a, current_month, term_months) ==
    IF current_month >= term_months THEN 0
    ELSE floor_at_zero(reserve_unfloored(policies, a, current_month, term_months))

\* ------------------------------------------------------------------------
\* Monthly projection loop (projection_engine.py, run_projection)
\* ------------------------------------------------------------------------
VARIABLES
    assumptions,        \* the argument of run_projection
    pc,                 \* "loop": in the for loop; "returned"; "raised"
    month,              \* the month the loop takes next
    policies_in_force,
    total_premiums,
    total_claims,
    total_deaths,
    peak_reserve,
    rows,               \* the local list of rows
    passes,             \* history: the unrounded locals of each pass of the loop
    result,             \* the ProjectionResult returned, NoResult before
    error               \* the exception run_projection let through, NoError before

vars == <<assumptions, pc, month, policies_in_force, total_premiums, total_claims,
          total_deaths, peak_reserve, rows, passes, result, error>>

NoResult == [returned |-> FALSE]
NoError == [raised |-> FALSE]

\* term_months = assumptions.term_years * 12
term_months_of(a) == a.term_years * MonthsPerYear

\* float(assumptions.num_policies)
to_float(n) == n * Scale

\* (mutant) the loop also stops once nobody is in force.
loop_stops_when_empty(m, term_months) == m <= term_months /\ policies_in_force > 0

\* for month in range(1, term_months + 1): the loop has a month left to take
loop_has_next(m, term_months) == m <= term_months

\* policy_year = ((month - 1) // 12) + 1
policy_year_of(m) == ((m - 1) \div MonthsPerYear) + 1

\* age = assumptions.entry_age + ((month - 1) // 12)
attained_age(entry_age, m) == entry_age + ((m - 1) \div MonthsPerYear)

\* deaths = policies_in_force * qx_monthly
deaths_of(policies, qx_monthly) == MulFx(policies, qx_monthly)

\* premiums = policies_in_force * assumptions.monthly_premium
premiums_of(policies, monthly_premium) == MulFx(policies, monthly_premium)

\* (mutant) the claims lose their deaths factor.
claims_without_deaths(deaths, sum_assured) == sum_assured

\* claims = deaths * assumptions.sum_assured
claims_of(deaths, sum_assured) == MulFx(deaths, sum_assured)

\* (mutant) the deaths are never taken off the in-force count.
no_decrement(policies, deaths) == policies

\* (mutant) the deaths are added to the in-force count.
decrement_sign_slip(policies, deaths) == policies + deaths

\* policies_in_force -= deaths
decrement(policies, deaths) == policies - deaths

\* (mutant) the reserve is valued as of the month before.
reserve_at_month_start(policies, a, m) ==
    calculate_reserve(policies, a, m - 1, a.term_years * MonthsPerYear)

\* reserve = calculate_reserve(policies=policies_in_force, ..., current_month=month, ...)
reserve_at_month_end(policies, a, m) ==
    calculate_reserve(policies, a, m, term_months_of(a))

\* (mutant) the peak is overwritten by the latest reserve.
latest_reserve(peak, reserve) == reserve

\* peak_reserve = max(peak_reserve, reserve)
running_max(peak, reserve) == Max(peak, reserve)

\* (mutant) the claims are added to the premiums.
net_cashflow_sign_slip(premiums, claims) == premiums + claims

\* premiums - claims, the argument of round in net_cashflow=round(premiums - claims, 2)
net_cashflow_of(premiums, claims) == premiums - claims

\* ProjectionRow(...): the values a row carries, rounded at emission
make_row(m, policy_year, age, policies_at_start, deaths, policies_end, premiums, claims, reserve) ==
    [month |-> m,
     year |-> policy_year,
     age |-> age,
     policies_start |-> round(policies_at_start, CountDigits, Scale),
     deaths |-> round(deaths, CountDigits, Scale),
     policies_end |-> round(policies_end, CountDigits, Scale),
     premiums |-> round(premiums, MoneyDigits, MoneyScale),
     claims |-> round(claims, MoneyDigits, MoneyScale),
     net_cashflow |-> round(net_cashflow_of(premiums, claims), MoneyDigits, MoneyScale),
     reserve |-> round(reserve, MoneyDigits, MoneyScale)]

\* ProjectionSummary(...)
make_summary(term_months, premiums, claims, deaths, in_force, peak) ==
    [total_months |-> term_months,
     total_premiums |-> round(premiums, MoneyDigits, MoneyScale),
     total_claims |-> round(claims, MoneyDigits, MoneyScale),
     total_deaths |-> round(deaths, CountDigits, Scale),
     final_in_force |-> round(in_force, CountDigits, Scale),
     peak_reserve |-> round(peak, MoneyDigits, MoneyScale)]

\* The state on entry to the for loop.
Init ==
    /\ assumptions \in Assumptions
    /\ pc = "loop"
    /\ month = 1
    /\ policies_in_force = to_float(assumptions.num_policies)
    /\ total_premiums = 0
    /\ total_claims = 0
    /\ total_deaths = 0
    /\ peak_reserve = 0
    /\ rows = <<>>
    /\ passes = <<>>
    /\ result = NoResult
    /\ error = NoError

\* One pass of the body of the for loop, get_qx returning.
LoopBody ==
    /\ pc = "loop"
    /\ loop_has_next(month, term_months_of(assumptions))
    /\ ~get_qx_raises(assumptions.mortality_table)
    /\ LET a == assumptions
           policy_year == policy_year_of(month)
           age == attained_age(a.entry_age, month)
           qx_annual == get_qx(age, a.mortality_table)
           qx_monthly == MonthlyQxOf[qx_annual]
           deaths == deaths_of(policies_in_force, qx_monthly)
           premiums == premiums_of(policies_in_force, a.monthly_premium)
           claims == claims_of(deaths, a.sum_assured)
           policies_at_start == policies_in_force
           policies_end == decrement(policies_in_force, deaths)
           reserve == reserve_at_month_end(policies_end, a, month)
       IN  /\ policies_in_force' = policies_end
           /\ total_premiums' = total_premiums + premiums
           /\ total_claims' = total_claims + claims
           /\ total_deaths' = total_deaths + deaths
           /\ peak_reserve' = running_max(peak_reserve, reserve)
           /\ rows' = Append(rows, make_row(month, policy_year, age, policies_at_start,
                                            deaths, policies_end, premiums, claims,
                                            reserve))
           /\ passes' = Append(passes, [age |-> age,
                                        policies_at_start |-> policies_at_start,
                                        deaths |-> deaths,
                                        policies_end |-> policies_end])
    /\ month' = month + 1
    /\ UNCHANGED <<assumptions, pc, result, error>>

\* A pass of the body in which get_qx raises: the exception leaves
\* run_projection, which returns nothing.
LoopBodyRaises ==
    /\ pc = "loop"
    /\ loop_has_next(month, term_months_of(assumptions))
    /\ get_qx_raises(assumptions.mortality_table)
    /\ pc' = "raised"
    /\ error' = [raised |-> TRUE, type |-> "ValueError",
                 message |-> "Unknown mortality table: ",
                 table |-> assumptions.mortality_table]
    /\ UNCHANGED <<assumptions, month, policies_in_force, total_premiums, total_claims,
                   total_deaths, peak_reserve, rows, passes, result>>

\* The loop is over: the summary is built and the result returned.
Return ==
    /\ pc = "loop"
    /\ ~loop_has_next(month, term_months_of(assumptions))
    /\ pc' = "returned"
    /\ result' = [returned |-> TRUE,
                  assumptions |-> assumptions,
                  rows |-> rows,
                  summary |-> make_summary(term_months_of(assumptions), total_premiums,
                                           total_claims, total_deaths,
                                           policies_in_force, peak_reserve)]
    /\ UNCHANGED <<assumptions, month, policies_in_force, total_premiums, total_claims,
                   total_deaths, peak_reserve, rows, passes, error>>

Next == LoopBody \/ LoopBodyRaises \/ Return

Spec == Init /\ [][Next]_vars

\* ------------------------------------------------------------------------
\* Properties
\* ------------------------------------------------------------------------
Abs(x) == IF x >= 0 THEN x ELSE -x
OneCent == MoneyScale \div Pow10(MoneyDigits)
OneTenThousandth == Scale \div Pow10(CountDigits)
TermMonths == term_months_of(assumptions)
UnknownTable == assumptions.mortality_table /= DefaultTable

\* The sum of a column over rows lo .. hi of a list of rows.
RECURSIVE SumColumn(_, _, _, _)
SumColumn(rs, column, lo, hi) ==
    IF lo > hi THEN 0
    ELSE IF lo = hi THEN rs[lo][column]
    ELSE LET mid == (lo + hi) \div 2
         IN  SumColumn(rs, column, lo, mid) + SumColumn(rs, column, mid + 1, hi)

SumOfRows(column) == SumColumn(result.rows, column, 1, Len(result.rows))

C2_RowsCoverTerm ==
    /\ Len(rows) <= TermMonths
    /\ \A i \in 1..Len(rows) : rows[i].month = i
    /\ pc = "loop" /\ ~UnknownTable => month = Len(rows) + 1
    /\ pc = "returned" =>
        /\ result.returned
        /\ Len(result.rows) = assumptions.term_years * MonthsPerYear
        /\ \A i \in 1..Len(result.rows) : result.rows[i].month = i
        /\ result.summary.total_months = TermMonths

C2_Witness ==
    /\ pc = "returned"
    /\ Len(result.rows) = TermMonths
    /\ policies_in_force = 0
    /\ \E i \in 1..(TermMonths - MonthsPerYear) : result.rows[i].policies_end = 0

\* C3 (as claimed): the totals of the summary are exactly the sums of the
\* rounded premiums, claims and deaths the rows carry.
C3_TotalsAreSumsOfRows ==
    pc = "returned" =>
        /\ result.summary.total_premiums = SumOfRows("premiums")
        /\ result.summary.total_claims = SumOfRows("claims")
        /\ result.summary.total_deaths = SumOfRows("deaths")

\* C4 (as claimed): the sums of the rows' premiums and claims are within one
\* cent of the summary's totals, and the sum of the rows' deaths within one
\* ten-thousandth of summary.total_deaths.
C4_TotalsWithinTolerance ==
    pc = "returned" =>
        /\ Abs(result.summary.total_premiums - SumOfRows("premiums")) <= OneCent
        /\ Abs(result.summary.total_claims - SumOfRows("claims")) <= OneCent
        /\ Abs(result.summary.total_deaths - SumOfRows("deaths")) <= OneTenThousandth

\* a * b is exactly MulFx(a, b): the product has no digit below the unit.
MulIsExact(a, b) ==
    ((((a \div Kilo) * (b % Kilo) + (a % Kilo) * (b \div Kilo)) % Kilo) * Kilo
        + (a % Kilo) * (b % Kilo)) % Scale = 0

\* C5 (as claimed): the three 4-decimal values a row carries satisfy
\* policies_end = policies_start - deaths exactly.
C5_Original ==
    \A i \in 1..Len(rows) :
        rows[i].policies_end = rows[i].policies_start - rows[i].deaths

\* C5 (amended): the three 4-decimal values a row carries satisfy
\* policies_end = policies_start - deaths to within one ten-thousandth
\* (each is rounded on its own, so they can disagree by one unit in the last
\* place, never by more).
C5_EndIsStartLessDeathsWithinUnit ==
    \A i \in 1..Len(rows) :
        Abs(rows[i].policies_end - (rows[i].policies_start - rows[i].deaths))
            <= OneTenThousandth

C5_Witness ==
    \E i \in 1..Len(rows) :
        /\ rows[i].deaths > 0
        /\ Abs(rows[i].policies_end - (rows[i].policies_start - rows[i].deaths))
            = OneTenThousandth

\* C6 (as claimed): the values a row carries satisfy
\* claims = deaths * sum_assured and premiums = policies_start * monthly_premium.
C6_Original ==
    \A i \in 1..Len(rows) :
        /\ rows[i].claims = MulFx(rows[i].deaths, assumptions.sum_assured)
        /\ MulIsExact(rows[i].deaths, assumptions.sum_assured)
        /\ rows[i].premiums = MulFx(rows[i].policies_start, assumptions.monthly_premium)
        /\ MulIsExact(rows[i].policies_start, assumptions.monthly_premium)

\* C6 (amended): claims and premiums are computed from the unrounded deaths
\* and the unrounded pre-decrement in-force count and rounded afterwards, so
\* the values a row carries satisfy
\*   |claims - deaths * sum_assured| <= 0.01 + 0.0001 * sum_assured
\*   |premiums - policies_start * monthly_premium| <= 0.01 + 0.0001 * monthly_premium.
C6_CashflowsWithinRounding ==
    \A i \in 1..Len(rows) :
        /\ Abs(rows[i].claims - MulFx(rows[i].deaths, assumptions.sum_assured))
            <= OneCent + MulFx(OneTenThousandth, assumptions.sum_assured)
        /\ Abs(rows[i].premiums
                 - MulFx(rows[i].policies_start, assumptions.monthly_premium))
            <= OneCent + MulFx(OneTenThousandth, assumptions.monthly_premium)

C6_Witness ==
    \E i \in 1..Len(rows) :
        /\ rows[i].claims > 0
        /\ rows[i].claims /= MulFx(rows[i].deaths, assumptions.sum_assured)
        /\ rows[i].premiums > 0
        /\ rows[i].premiums /= MulFx(rows[i].policies_start, assumptions.monthly_premium)

\* C7: calculate_reserve returns exactly 0 whenever current_month >= term_months,
\* and the row of the last month (month = term_months) carries reserve 0.
C7_ReserveZeroAtMaturity ==
    /\ \A current_month \in TermMonths..(TermMonths + MonthsPerYear) :
           calculate_reserve(policies_in_force, assumptions, current_month, TermMonths) = 0
    /\ Len(rows) = TermMonths => rows[TermMonths].reserve = 0
    /\ pc = "returned" => result.rows[Len(result.rows)].reserve = 0

C7_Witness ==
    /\ pc = "returned"
    /\ result.rows[TermMonths].month = TermMonths
    /\ result.rows[TermMonths].reserve = 0
    /\ result.rows[TermMonths - 1].reserve > 0
    /\ policies_in_force > 0

\* C8: the in-force count never increases: in every row policies_end <=
\* policies_start, each row starts where the row before ended, and the count
\* stays within [0, num_policies], the monthly mortality rates being in [0, 1].
C8_InForceNonIncreasing ==
    /\ \A q \in DOMAIN MonthlyQxOf : MonthlyQxOf[q] \in 0..Scale
    /\ policies_in_force \in 0..to_float(assumptions.num_policies)
    /\ \A i \in 1..Len(rows) :
        /\ rows[i].policies_end <= rows[i].policies_start
        /\ rows[i].policies_end >= 0
        /\ rows[i].policies_start <= to_float(assumptions.num_policies)
        /\ rows[i].deaths >= 0
        /\ i > 1 =>
            /\ rows[i].policies_start = rows[i - 1].policies_end
            /\ rows[i].policies_start <= rows[i - 1].policies_start
    /\ Len(rows) > 0 =>
        rows[Len(rows)].policies_end = round(policies_in_force, CountDigits, Scale)

C8_Witness ==
    /\ Len(rows) > MonthsPerYear
    /\ rows[1].policies_end < rows[1].policies_start
    /\ rows[Len(rows)].policies_start < rows[1].policies_end
    /\ rows[Len(rows)].policies_end = 0
    /\ rows[Len(rows)].policies_start > 0

\* C9: the reserve is never negative: calculate_reserve returns
\* max(0, pv_benefits - pv_premiums), so every row's reserve and the peak
\* reserve are >= 0, also when the premiums outweigh the expected claims.
C9_ReserveNeverNegative ==
    /\ peak_reserve >= 0
    /\ \A i \in 1..Len(rows) : rows[i].reserve >= 0
    /\ pc = "returned" => result.summary.peak_reserve >= 0
    /\ Len(rows) > 0 /\ Len(rows) < TermMonths =>
        LET unfloored == reserve_unfloored(policies_in_force, assumptions,
                                           Len(rows), TermMonths)
        IN  /\ calculate_reserve(policies_in_force, assumptions, Len(rows), TermMonths)
                = (IF unfloored > 0 THEN unfloored ELSE 0)
            /\ rows[Len(rows)].reserve
                = round(IF unfloored > 0 THEN unfloored ELSE 0, MoneyDigits, MoneyScale)

C9_Witness ==
    /\ Len(rows) > 0
    /\ Len(rows) < TermMonths
    /\ assumptions.monthly_premium > 0
    /\ rows[Len(rows)].reserve = 0
    /\ reserve_unfloored(policies_in_force, assumptions, Len(rows), TermMonths) < 0

\* The greatest term_years an Assumptions value may carry.
MaxValidTermYears == 50

\* The age used by pass t of the reserve loop of the call made in month m.
SweepAges(m) ==
    {age_at(assumptions.entry_age, m, t) : t \in 0..((TermMonths - m) - 1)}

\* C10: get_qx clamps the age to [0, 100] before the lookup: every month of
\* the projection loop and every pass of the reserve loop whose attained age
\* exceeds 100 uses the qx tabulated at age 100, and every age reachable from
\* valid assumptions finds its key in the table.
C10_AgeCappedAtHundred ==
    /\ \A age \in MinEntryAge..(MaxEntryAge + MaxValidTermYears) :
        /\ clamp_age(age) + 1 \in DOMAIN ELT17_MALES_QX
        /\ age > MaxTableAge =>
            get_qx(age, DefaultTable) = ELT17_MALES_QX[MaxTableAge + 1]
    /\ Len(rows) > 0 =>
        LET last == rows[Len(rows)]
        IN  /\ last.age = attained_age(assumptions.entry_age, last.month)
            /\ clamp_age(last.age) \in MinTableAge..MaxTableAge
            /\ last.age > MaxTableAge =>
                get_qx(last.age, assumptions.mortality_table)
                    = ELT17_MALES_QX[MaxTableAge + 1]
            /\ last.age >= MaxTableAge =>
                /\ last.deaths = last.policies_start
                /\ last.policies_end = 0
                /\ policies_in_force = 0
            /\ \A age \in SweepAges(last.month) :
                /\ clamp_age(age) \in MinTableAge..MaxTableAge
                /\ age > MaxTableAge =>
                    get_qx(age, assumptions.mortality_table)
                        = ELT17_MALES_QX[MaxTableAge + 1]

C10_Witness ==
    /\ Len(rows) > 0
    /\ rows[Len(rows)].age > MaxTableAge
    /\ \E i \in 1..Len(rows) :
        /\ rows[i].age < MaxTableAge
        /\ rows[i].reserve > 0
        /\ \E age \in SweepAges(i) : age > MaxTableAge

\* C11 (as claimed): the in-force count after the decrement is strictly
\* greater than 0 in every month of every projection.
C11_Original ==
    Len(rows) > 0 => policies_in_force > 0

\* C11 (amended): the in-force count after the decrement is strictly greater
\* than 0 in every month whose attained age is below 100, and is exactly 0
\* from the first month whose attained age is 100 or more (qx = 1 there, so
\* that month's deaths are the whole in-force count).
C11_PositiveUntilAgeHundred ==
    Len(rows) > 0 =>
        LET last == rows[Len(rows)]
        IN  /\ last.age < MaxTableAge => policies_in_force > 0
            /\ last.age >= MaxTableAge => policies_in_force = 0
            /\ MonthlyQxOf[get_qx(last.age, assumptions.mortality_table)] = Scale
                   <=> last.age >= MaxTableAge

C11_Witness ==
    /\ Len(rows) > 1
    /\ rows[Len(rows)].age = MaxTableAge
    /\ rows[Len(rows) - 1].age = MaxTableAge - 1
    /\ policies_in_force = 0
    /\ rows[Len(rows)].month <= MaxValidTermYears * MonthsPerYear
    /\ assumptions.entry_age \in MinEntryAge..MaxEntryAge

\* C12: summary.peak_reserve is the maximum of the reserves the rows carry, a
\* running maximum that starts from 0: it is >= every row's reserve and is
\* attained by a row or is 0.
C12_PeakIsMaxOfRows ==
    /\ \A i \in 1..Len(rows) :
           round(peak_reserve, MoneyDigits, MoneyScale) >= rows[i].reserve
    /\ \/ peak_reserve = 0
       \/ \E i \in 1..Len(rows) :
              rows[i].reserve = round(peak_reserve, MoneyDigits, MoneyScale)
    /\ pc = "returned" =>
        /\ result.summary.peak_reserve = round(peak_reserve, MoneyDigits, MoneyScale)
        /\ \A i \in 1..Len(result.rows) :
               result.summary.peak_reserve >= result.rows[i].reserve
        /\ \/ result.summary.peak_reserve = 0
           \/ \E i \in 1..Len(result.rows) :
                  result.rows[i].reserve = result.summary.peak_reserve

C12_Witness ==
    /\ pc = "returned"
    /\ result.summary.peak_reserve > 0
    /\ result.rows[Len(result.rows)].reserve < result.summary.peak_reserve
    /\ \E i \in 1..(Len(result.rows) - 1) :
        /\ result.rows[i].reserve = result.summary.peak_reserve
        /\ result.rows[i + 1].reserve > 0
        /\ result.rows[i + 1].reserve < result.rows[i].reserve

\* C14 (as claimed): the 2-decimal values a row carries satisfy
\* net_cashflow = premiums - claims exactly.
C14_Original ==
    \A i \in 1..Len(rows) :
        rows[i].net_cashflow = rows[i].premiums - rows[i].claims

\* C14 (amended): net_cashflow is the unrounded premiums minus the unrounded
\* claims, rounded to 2 decimals, so against the 2-decimal premiums and claims
\* of the same row it satisfies net_cashflow = premiums - claims to within one
\* cent (the three are rounded on their own and can disagree by one cent,
\* never by more).
C14_NetCashflowWithinCent ==
    \A i \in 1..Len(rows) :
        Abs(rows[i].net_cashflow - (rows[i].premiums - rows[i].claims)) <= OneCent

C14_Witness ==
    \E i \in 1..Len(rows) :
        /\ rows[i].premiums > 0
        /\ rows[i].claims > 0
        /\ Abs(rows[i].net_cashflow - (rows[i].premiums - rows[i].claims)) = OneCent

\* Pass t of the reserve loop of the call made in month m, set against the
\* pass of the projection loop for month m + 1 + t: c.s holds the reserve
\* loop's variables, c.ok whether every pass so far agreed.
valuator_pass(c, t, a, m) ==
    LET next == reserve_step(c.s, t, a, m)
        pass == passes[m + 1 + t]
    IN  [s |-> next,
         ok |-> /\ c.ok
                /\ age_at(a.entry_age, m, t) = pass.age
                /\ c.s.expected_policies = pass.policies_at_start
                /\ c.s.expected_policies - next.expected_policies = pass.deaths]

RECURSIVE valuator_passes(_, _, _, _, _)
valuator_passes(c, lo, hi, a, m) ==
    IF lo > hi THEN c
    ELSE IF lo = hi THEN valuator_pass(c, lo, a, m)
    ELSE LET mid == (lo + hi) \div 2
             c1 == valuator_passes(c, lo, mid, a, m)
         IN  IF c1.s.expected_policies >= 0
             THEN valuator_passes(c1, mid + 1, hi, a, m)
             ELSE c1

\* The reserve loop of the call made in month m, from the in-force count the
\* projection loop had after that month's decrement.
ValuationOfMonth(m) ==
    valuator_passes([s |-> [expected_policies |-> passes[m].policies_end,
                            pv_benefits |-> 0, pv_premiums |-> 0],
                     ok |-> TRUE],
                    0, (TermMonths - m) - 1, assumptions, m)

\* C13: the reserve of month m is valued from the post-decrement in-force
\* count with current_month = m, and the valuator's own decrement path is the
\* projection's future path: for every m < term_months and every
\* t in 0..term_months-m-1 the valuator's age_at_t, expected_policies and
\* expected_deaths at pass t are the projection loop's age, policies_at_start
\* and deaths of month m + 1 + t.
C13_ValuatorFollowsProjection ==
    /\ Len(passes) = Len(rows)
    /\ \A i \in 1..Len(rows) :
        /\ rows[i].age = passes[i].age
        /\ rows[i].policies_end = round(passes[i].policies_end, CountDigits, Scale)
    /\ Len(passes) > 1 =>
        LET m == Len(passes) - 1
            first == reserve_step([expected_policies |-> passes[m].policies_end,
                                   pv_benefits |-> 0, pv_premiums |-> 0],
                                  0, assumptions, m)
        IN  /\ age_at(assumptions.entry_age, m, 0) = passes[m + 1].age
            /\ passes[m].policies_end = passes[m + 1].policies_at_start
            /\ passes[m].policies_end - first.expected_policies = passes[m + 1].deaths
            /\ first.expected_policies = policies_in_force
    /\ pc = "returned" =>
        \A m \in 1..(TermMonths - 1) :
            LET c == ValuationOfMonth(m)
                reserve == c.s.pv_benefits - c.s.pv_premiums
            IN  /\ c.ok
                /\ result.rows[m].reserve
                    = round(IF reserve > 0 THEN reserve ELSE 0, MoneyDigits, MoneyScale)

C13_Witness ==
    /\ pc = "returned"
    /\ TermMonths > MonthsPerYear
    /\ passes[1].age < passes[TermMonths].age
    /\ passes[TermMonths].deaths > 0
    /\ passes[TermMonths].deaths /= passes[1].deaths
    /\ result.rows[1].reserve > 0
    /\ ValuationOfMonth(1).ok

====
